---- MODULE Spec2Model ----
(***************************************************************************)
(* Regex -> epsilon-NFA -> NFA -> DFA -> minimal DFA -> trap-free DFA ->   *)
(* right-linear grammar, as implemented in src/main.cpp (lines 1-829).     *)
(* State indices are zero-based as in the C++ code; a vector v is a        *)
(* sequence and v[i] is written v[i+1].                                    *)
(***************************************************************************)
EXTENDS Integers, Sequences, FiniteSets, TLC

\* ------------------------------------------------------------------ bounds
MaxNodes == 5
MaxWordLen == 6

\* The one element of a singleton set. {F(x) : x \in {e}} names the value e
\* once, as x, for use in several places of F.
Only(S) == CHOOSE x \in S : TRUE

\* ------------------------------------------------------- regex syntax tree
EPS == "eps"

Null == [type |-> "NULL"]

RegexNode(t, c, l, r) == [type |-> t, ch |-> c, left |-> l, right |-> r]

\* ------------------------------------------------------------ RegexParser
\* Every parse function returns the node it built and the new value of pos.
PR(n, p) == [node |-> n, pos |-> p]

RECURSIVE parseUnion(_, _), parseUnionLoop(_, _, _), parseConcat(_, _),
          parseConcatLoop(_, _, _), parseStar(_, _), parseStarLoop(_, _, _),
          parseBase(_, _)

parseBase(str, pos) ==
    IF pos >= Len(str) THEN PR(Null, pos)
    ELSE IF str[pos + 1] = "("
         THEN Only({IF u.pos < Len(str) /\ str[u.pos + 1] = ")"
                    THEN PR(u.node, u.pos + 1)
                    ELSE PR(u.node, u.pos) : u \in {parseUnion(str, pos + 1)}})
    ELSE IF str[pos + 1] = "0" \/ str[pos + 1] = "1"
         THEN PR(RegexNode("CHAR", str[pos + 1], Null, Null), pos + 1)
    ELSE PR(Null, pos)

parseStarLoop(str, node, pos) ==
    IF pos < Len(str) /\ str[pos + 1] = "*"
    THEN parseStarLoop(str, RegexNode("STAR", EPS, node, Null), pos + 1)
    ELSE PR(node, pos)

parseStar(str, pos) ==
    Only({parseStarLoop(str, b.node, b.pos) : b \in {parseBase(str, pos)}})

parseConcatLoop(str, node, pos) ==
    IF pos < Len(str) /\ (str[pos + 1] # ")" /\ str[pos + 1] # "+")
    THEN Only({parseConcatLoop(str, RegexNode("CONCAT", EPS, node, r.node), r.pos) :
                  r \in {parseStar(str, pos)}})
    ELSE PR(node, pos)

parseConcat(str, pos) ==
    Only({parseConcatLoop(str, s.node, s.pos) : s \in {parseStar(str, pos)}})

\* Faulty variant of parseUnionLoop: the right operand of '+' is a single
\* starred base, so union would bind tighter than concatenation on its right.
parseUnionLoop_tight(str, node, pos) ==
    IF pos < Len(str) /\ str[pos + 1] = "+"
    THEN Only({parseUnionLoop(str, RegexNode("UNION", EPS, node, r.node), r.pos) :
                  r \in {parseStar(str, pos + 1)}})
    ELSE PR(node, pos)

parseUnionLoop(str, node, pos) ==
    IF pos < Len(str) /\ str[pos + 1] = "+"
    THEN Only({parseUnionLoop(str, RegexNode("UNION", EPS, node, r.node), r.pos) :
                  r \in {parseConcat(str, pos + 1)}})
    ELSE PR(node, pos)

parseUnion(str, pos) ==
    Only({parseUnionLoop(str, c.node, c.pos) : c \in {parseConcat(str, pos)}})

parse(str) == parseUnion(str, 0)

\* ------------------------------------------------- well-formed input set
\* The inputs are the printed forms of all expression trees with at most
\* MaxNodes nodes, printed either with the fewest parentheses the
\* precedences allow ("min") or with every operand parenthesised ("full").
RECURSIVE TreesOfSize(_)
TreesOfSize(n) ==
    IF n <= 0 THEN {}
    ELSE IF n = 1 THEN {RegexNode("CHAR", c, Null, Null) : c \in {"0", "1"}}
    ELSE {RegexNode("STAR", EPS, t, Null) : t \in TreesOfSize(n - 1)}
         \cup UNION {{RegexNode(op, EPS, l, r) :
                          op \in {"CONCAT", "UNION"},
                          l \in TreesOfSize(k),
                          r \in TreesOfSize(n - 1 - k)} : k \in 1..(n - 2)}

Trees == UNION {TreesOfSize(n) : n \in 1..MaxNodes}

\* Binding strength of the operator at the root of t.
Prec(t) == CASE t.type = "UNION" -> 1
             [] t.type = "CONCAT" -> 2
             [] t.type = "STAR" -> 3
             [] OTHER -> 4

Paren(s) == <<"(">> \o s \o <<")">>

RECURSIVE Unparse(_, _)
Unparse(t, style) ==
    LET Sub(c, need) == IF style = "full" \/ Prec(c) < need
                        THEN Paren(Unparse(c, style))
                        ELSE Unparse(c, style)
    IN  CASE t.type = "CHAR" -> <<t.ch>>
          [] t.type = "STAR" -> Sub(t.left, 4) \o <<"*">>
          [] t.type = "CONCAT" -> Sub(t.left, 2) \o Sub(t.right, 3)
          [] t.type = "UNION" -> Sub(t.left, 1) \o <<"+">> \o Sub(t.right, 2)

Styles == {"min", "full"}

RegexInputs == {Unparse(t, s) : t \in Trees, s \in Styles}

\* --------------------------------------------------- reference semantics
\* Reference reading of a regex string, by splitting at top-level
\* operators: the last top-level '+' (union is weakest and associates to
\* the left), else the start of the last factor (concatenation associates
\* to the left), else a trailing '*', else an enclosing pair of parentheses.
RECURSIVE Depth(_, _)
Depth(s, i) ==
    IF i = 0 THEN 0
    ELSE Depth(s, i - 1) + (IF s[i] = "(" THEN 1 ELSE IF s[i] = ")" THEN -1 ELSE 0)

Balanced(s) ==
    /\ \A i \in 1..Len(s) : Depth(s, i) >= 0
    /\ Depth(s, Len(s)) = 0

TopPlus(s) == {i \in 1..Len(s) : s[i] = "+" /\ Depth(s, i) = 0}

Max(S) == CHOOSE x \in S : \A y \in S : y <= x

\* Index at which the last factor (base followed by stars) of s begins; 0 if none.
LastFactorStart(s) ==
    LET n == Len(s)
        nonStar == {i \in 1..n : s[i] # "*"}
    IN  IF nonStar = {} THEN 0
        ELSE LET j == Max(nonStar)
             IN  IF s[j] \in {"0", "1"} THEN j
                 ELSE IF s[j] = ")"
                      THEN LET opens == {i \in 1..(j - 1) :
                                           s[i] = "(" /\ Depth(s, i - 1) = Depth(s, j)}
                           IN  IF opens = {} THEN 0 ELSE Max(opens)
                 ELSE 0

RECURSIVE RefParse(_)
RefParse(s) ==
    LET n == Len(s)
        Bin(op, k1, k2) ==
            LET l == RefParse(SubSeq(s, 1, k1))
                r == RefParse(SubSeq(s, k2, n))
            IN  IF l = Null \/ r = Null THEN Null ELSE RegexNode(op, EPS, l, r)
    IN  IF n = 0 \/ ~Balanced(s) THEN Null
        ELSE IF TopPlus(s) # {}
             THEN Bin("UNION", Max(TopPlus(s)) - 1, Max(TopPlus(s)) + 1)
        ELSE LET p == LastFactorStart(s)
             IN  IF p = 0 THEN Null
                 ELSE IF p > 1 THEN Bin("CONCAT", p - 1, p)
                 ELSE IF s[n] = "*"
                      THEN LET x == RefParse(SubSeq(s, 1, n - 1))
                           IN  IF x = Null THEN Null
                               ELSE RegexNode("STAR", EPS, x, Null)
                 ELSE IF s[1] = "(" THEN RefParse(SubSeq(s, 2, n - 1))
                 ELSE IF n = 1 /\ s[1] \in {"0", "1"}
                      THEN RegexNode("CHAR", s[1], Null, Null)
                 ELSE Null

\* --------------------------------------------------------------------- NFA
NFAState(i, acc) == [id |-> i, accept |-> acc, trans |-> <<>>]

EmptyNFA == [states |-> <<>>, start |-> -1]

\* NFA::new_state: returns the extended automaton and the new id.
new_state(nfa, acc) ==
    Only({[nfa |-> [n EXCEPT !.states = Append(@, NFAState(Len(n.states), acc))],
           id  |-> Len(n.states)] : n \in {nfa}})

\* trans[c], or the empty vector when the map has no key c (map::find fails).
TransOf(st, c) == IF c \in DOMAIN st.trans THEN st.trans[c] ELSE <<>>

\* Thompson::add_transition: nfa.states[from].trans[c].push_back(to)
add_transition(nfa, from, to, c) ==
    Only({[n EXCEPT !.states[from + 1].trans =
               IF c \in DOMAIN @ THEN [@ EXCEPT ![c] = Append(@, to)]
                                 ELSE (c :> <<to>>) @@ @] : n \in {nfa}})

Frag(n, s, a) == [nfa |-> n, start |-> s, accept |-> a]

\* The wiring each case of Thompson::buildFragment adds once its states and
\* sub-fragments exist.
CharFragment(s, a, ch) ==
    Frag(add_transition(a.nfa, s.id, a.id, ch), s.id, a.id)

ConcatFragment(f1, f2) ==
    Frag(add_transition(f2.nfa, f1.accept, f2.start, EPS), f1.start, f2.accept)

UnionFragment(s, a, f1, f2) ==
    Frag(add_transition(
            add_transition(
               add_transition(
                  add_transition(f2.nfa, s.id, f1.start, EPS),
                  s.id, f2.start, EPS),
               f1.accept, a.id, EPS),
            f2.accept, a.id, EPS),
         s.id, a.id)

StarFragment(s, a, f) ==
    Frag(add_transition(
            add_transition(
               add_transition(
                  add_transition(f.nfa, s.id, f.start, EPS),
                  f.accept, a.id, EPS),
               s.id, a.id, EPS),
            f.accept, f.start, EPS),
         s.id, a.id)

\* Thompson::buildFragment, threading the automaton under construction.
\* Statements execute in source order: the two new states first, then the
\* left and the right sub-fragment, then the transitions.
RECURSIVE buildFragment(_, _)
buildFragment(nfa, node) ==
    CASE node.type = "CHAR" ->
            Only({Only({CharFragment(s, a, node.ch)
                : a \in {new_state(s.nfa, FALSE)}})
                : s \in {new_state(nfa, FALSE)}})
      [] node.type = "CONCAT" ->
            Only({Only({ConcatFragment(f1, f2)
                : f2 \in {buildFragment(f1.nfa, node.right)}})
                : f1 \in {buildFragment(nfa, node.left)}})
      [] node.type = "UNION" ->
            Only({Only({Only({Only({UnionFragment(s, a, f1, f2)
                : f2 \in {buildFragment(f1.nfa, node.right)}})
                : f1 \in {buildFragment(a.nfa, node.left)}})
                : a \in {new_state(s.nfa, FALSE)}})
                : s \in {new_state(nfa, FALSE)}})
      [] node.type = "STAR" ->
            Only({Only({Only({StarFragment(s, a, f)
                : f \in {buildFragment(a.nfa, node.left)}})
                : a \in {new_state(s.nfa, FALSE)}})
                : s \in {new_state(nfa, FALSE)}})

\* Faulty variant of build: the entry state of the root fragment is marked
\* accepting instead of its exit state.
build_marks_entry(r) ==
    Only({[states |-> [frag.nfa.states EXCEPT ![frag.start + 1].accept = TRUE],
           start  |-> frag.start]
        : frag \in {buildFragment([states |-> <<>>, start |-> -1], r)}})

\* Thompson::build
build(r) ==
    Only({[states |-> [frag.nfa.states EXCEPT ![frag.accept + 1].accept = TRUE],
           start  |-> frag.start]
        : frag \in {buildFragment([states |-> <<>>, start |-> -1], r)}})

\* --------------------------------------------------------- EpsilonRemover
\* The elements of a finite set of integers in increasing order
\* (iteration order of std::set<int>).
SortedSeq(S) ==
    Only({[k \in 1..Cardinality(T) |->
              CHOOSE x \in T : Cardinality({y \in T : y < x}) = k - 1]
        : T \in {S}})

Range(f) == {f[i] : i \in DOMAIN f}

\* One iteration of the while loop of compute_epsilon_closure(s): pop u, then
\* insert and push every silent successor of u not yet in the closure.
\* The stack top is the last element of st.
RECURSIVE PushNew(_, _, _)
PushNew(succ, cl, st) ==
    IF succ = <<>> THEN [closure |-> cl, st |-> st]
    ELSE IF Head(succ) \in cl THEN PushNew(Tail(succ), cl, st)
    ELSE PushNew(Tail(succ), cl \cup {Head(succ)}, Append(st, Head(succ)))

\* Faulty variant of closure_iteration: the state read from the top of the
\* stack is not popped.
closure_iteration_no_pop(infa, cl, st) ==
    PushNew(TransOf(infa.states[st[Len(st)] + 1], EPS), cl, st)

\* Faulty variant of closure_iteration: the silent successors are inserted
\* into the closure but not pushed, so their own successors are never seen.
closure_iteration_one_step(infa, cl, st) ==
    [closure |-> PushNew(TransOf(infa.states[st[Len(st)] + 1], EPS), cl,
                         SubSeq(st, 1, Len(st) - 1)).closure,
     st      |-> SubSeq(st, 1, Len(st) - 1)]

closure_iteration(infa, cl, st) ==
    LET u == st[Len(st)]
    IN  PushNew(TransOf(infa.states[u + 1], EPS), cl, SubSeq(st, 1, Len(st) - 1))

\* Second half of EpsilonRemover::remove: the automaton built from the closures.
remove_build(infa, closures) ==
    LET n == Len(infa.states)
        Combined(i, c) ==
            UNION {UNION {closures[nxt + 1] :
                              nxt \in Range(TransOf(infa.states[cst + 1], c))} :
                       cst \in closures[i + 1]}
        HasKey(i, c) ==
            \E cst \in closures[i + 1] :
                TransOf(infa.states[cst + 1], c) # <<>>
        Keys(i) == {c \in {"0", "1"} : HasKey(i, c)}
    IN  [states |-> [k \in 1..n |->
                        [id     |-> k - 1,
                         accept |-> \E cst \in closures[k] :
                                        infa.states[cst + 1].accept,
                         trans  |-> [c \in Keys(k - 1) |->
                                        SortedSeq(Combined(k - 1, c))]]],
         start  |-> infa.start]

\* --------------------------------------------- DFA and SubsetConstruction
DFAState(i, acc, a, b) == [id |-> i, accept |-> acc, t0 |-> a, t1 |-> b]

\* DFA::DFA(): no states, start = trap = -1.
EmptyDFA == [states |-> <<>>, start |-> -1, trap |-> -1]

\* Faulty variant of move_set: only the smallest member of cur contributes.
move_set_first_member(infa, cur, c) ==
    IF cur = {} THEN {}
    ELSE LET s == CHOOSE x \in cur : \A y \in cur : x <= y
         IN  Range(TransOf(infa.states[s + 1], c))

\* SubsetConstruction::move_set
move_set(infa, cur, c) ==
    UNION {Range(TransOf(infa.states[s + 1], c)) : s \in cur}

\* Faulty variant of get_state_id: a non-empty subset is given a new index
\* each time it is met, whether or not the map holds it.
get_state_id_no_reuse(S, m, d, q) ==
    IF S = {} THEN [id |-> -1, m |-> m, d |-> d, q |-> q]
    ELSE [id |-> Len(d), m |-> (S :> Len(d)) @@ m,
          d |-> Append(d, S), q |-> Append(q, S)]

\* SubsetConstruction::get_state_id; m, d and q are passed by reference, so
\* their new values are returned with the id.
get_state_id(S, m, d, q) ==
    IF S = {} THEN [id |-> -1, m |-> m, d |-> d, q |-> q]
    ELSE IF S \notin DOMAIN m
         THEN [id |-> Len(d), m |-> (S :> Len(d)) @@ m,
               d |-> Append(d, S), q |-> Append(q, S)]
    ELSE [id |-> m[S], m |-> m, d |-> d, q |-> q]

\* One iteration of the worklist loop of convert().
convert_iteration(infa, m, d, q, tmp) ==
    LET cur == Head(q)
        cid == m[cur]
        is_accept == \E s \in cur : infa.states[s + 1].accept
        r0 == get_state_id(move_set(infa, cur, "0"), m, d, Tail(q))
        r1 == get_state_id(move_set(infa, cur, "1"), r0.m, r0.d, r0.q)
    IN  [m |-> r1.m, d |-> r1.d, q |-> r1.q,
         tmp |-> Append(tmp, DFAState(cid, is_accept, r0.id, r1.id))]

\* dfa.states[st.id] = st for every st of tmp, in order, on a vector of
\* tmp.size() states; a slot no st writes keeps the value `undef`.
RECURSIVE StoreAll(_, _)
StoreAll(states, tmp) ==
    IF tmp = <<>> THEN states
    ELSE StoreAll([states EXCEPT ![Head(tmp).id + 1] = Head(tmp)], Tail(tmp))

\* Faulty variant of convert_finish: the trap is made only when some state
\* lacks a successor; otherwise no trap is recorded.
convert_finish_lazy_trap(m, d, tmp, undef) ==
    LET needed == \E k \in 1..Len(tmp) : tmp[k].t0 < 0 \/ tmp[k].t1 < 0
        tid   == Len(tmp)
        tmp1  == IF needed THEN Append(tmp, DFAState(tid, FALSE, tid, tid))
                 ELSE tmp
        trap_id == IF needed THEN tid ELSE -1
        tmp2  == [k \in 1..Len(tmp1) |->
                    [tmp1[k] EXCEPT !.t0 = IF @ < 0 THEN trap_id ELSE @,
                                    !.t1 = IF @ < 0 THEN trap_id ELSE @]]
    IN  [states |-> StoreAll([k \in 1..Len(tmp2) |-> undef], tmp2),
         start  |-> 0,
         trap   |-> trap_id]

\* The part of convert() after the worklist loop.
convert_finish(m, d, tmp, undef) ==
    LET hasTrap == {} \in DOMAIN m
        tid   == Len(tmp)
        m1    == IF hasTrap THEN m ELSE ({} :> tid) @@ m
        tmp1  == IF hasTrap THEN tmp
                 ELSE Append(tmp, DFAState(tid, FALSE, tid, tid))
        trap_id == m1[{}]
        tmp2  == [k \in 1..Len(tmp1) |->
                    [tmp1[k] EXCEPT !.t0 = IF @ < 0 THEN trap_id ELSE @,
                                    !.t1 = IF @ < 0 THEN trap_id ELSE @]]
    IN  [states |-> StoreAll([k \in 1..Len(tmp2) |-> undef], tmp2),
         start  |-> 0,
         trap   |-> trap_id]

\* Values an uninitialised DFA::State (no member initialisers) may hold.
UninitDFAStates == {DFAState(i, b, x, y) : i \in {-1, 0}, b \in BOOLEAN,
                                            x \in {-1, 0}, y \in {-1, 0}}

\* ------------------------------------------------------------ DFAMinimizer
\* Initial partition: class 1 for accepting states, class 0 for the others.
initial_partition(idfa) ==
    [k \in 1..Len(idfa.states) |-> IF idfa.states[k].accept THEN 1 ELSE 0]

\* Lexicographic order of std::array<int,3>, the key order of `groups`.
KeyLess(a, b) ==
    \/ a[1] < b[1]
    \/ a[1] = b[1] /\ a[2] < b[2]
    \/ a[1] = b[1] /\ a[2] = b[2] /\ a[3] < b[3]

\* Faulty variant of refine_pass: the state index is part of the key, so no
\* two states ever share a group.
refine_pass_by_index(idfa, partition) ==
    [k \in 1..Len(idfa.states) |-> k - 1]

\* Faulty variant of refine_pass: the class of the symbol-1 successor is
\* left out of the key.
refine_pass_ignore_one(idfa, partition) ==
    LET Key(k) == <<partition[k], partition[idfa.states[k].t0 + 1], 0>>
        keys == {Key(k) : k \in 1..Len(idfa.states)}
    IN  [k \in 1..Len(idfa.states) |->
            Cardinality({x \in keys : KeyLess(x, Key(k))})]

\* Faulty variant of refine_pass: the state's own class is left out of the
\* key, so states of different classes with like successors fall together.
refine_pass_forget_own(idfa, partition) ==
    LET Key(k) == <<0, partition[idfa.states[k].t0 + 1],
                    partition[idfa.states[k].t1 + 1]>>
        keys == {Key(k) : k \in 1..Len(idfa.states)}
    IN  [k \in 1..Len(idfa.states) |->
            Cardinality({x \in keys : KeyLess(x, Key(k))})]

\* Faulty variant of refine_pass: new_class starts at 1, so class 0 is
\* never given to any state.
refine_pass_from_one(idfa, partition) ==
    LET Key(k) == <<partition[k],
                    partition[idfa.states[k].t0 + 1],
                    partition[idfa.states[k].t1 + 1]>>
        keys == {Key(k) : k \in 1..Len(idfa.states)}
    IN  [k \in 1..Len(idfa.states) |->
            Cardinality({x \in keys : KeyLess(x, Key(k))}) + 1]

\* One pass of the refinement loop: new_partition, numbering the groups in
\* the order of their keys.
refine_pass(idfa, partition) ==
    LET Key(k) == <<partition[k],
                    partition[idfa.states[k].t0 + 1],
                    partition[idfa.states[k].t1 + 1]>>
        keys == {Key(k) : k \in 1..Len(idfa.states)}
    IN  [k \in 1..Len(idfa.states) |->
            Cardinality({x \in keys : KeyLess(x, Key(k))})]

\* Faulty variant of minimize_build: the two successors of the
\* representative are written to the wrong fields (t0 and t1 exchanged).
minimize_build_swapped(idfa, partition, undef) ==
    LET count_classes == Max(Range(partition)) + 1
        members(c) == {i \in 0..(Len(partition) - 1) : partition[i + 1] = c}
        repr(c) == IF members(c) = {} THEN -1
                   ELSE CHOOSE i \in members(c) : \A j \in members(c) : i <= j
        class_accept(c) == \E i \in members(c) : idfa.states[i + 1].accept
        Wire(c) ==
            IF repr(c) < 0 THEN DFAState(c, class_accept(c), undef.t0, undef.t1)
            ELSE DFAState(c, class_accept(c),
                          partition[idfa.states[repr(c) + 1].t1 + 1],
                          partition[idfa.states[repr(c) + 1].t0 + 1])
    IN  [states |-> [k \in 1..count_classes |-> Wire(k - 1)],
         start  |-> partition[idfa.start + 1],
         trap   |-> partition[idfa.trap + 1]]

\* Faulty variant of minimize_build: the trap of the result is the class
\* of the old start's symbol-0 successor instead of the class of the old trap.
minimize_build_wrong_trap(idfa, partition, undef) ==
    LET count_classes == Max(Range(partition)) + 1
        members(c) == {i \in 0..(Len(partition) - 1) : partition[i + 1] = c}
        repr(c) == IF members(c) = {} THEN -1
                   ELSE CHOOSE i \in members(c) : \A j \in members(c) : i <= j
        class_accept(c) == \E i \in members(c) : idfa.states[i + 1].accept
        Wire(c) ==
            IF repr(c) < 0 THEN DFAState(c, class_accept(c), undef.t0, undef.t1)
            ELSE DFAState(c, class_accept(c),
                          partition[idfa.states[repr(c) + 1].t0 + 1],
                          partition[idfa.states[repr(c) + 1].t1 + 1])
    IN  [states |-> [k \in 1..count_classes |-> Wire(k - 1)],
         start  |-> partition[idfa.start + 1],
         trap   |-> partition[idfa.states[idfa.start + 1].t0 + 1]]

\* The part of minimize() after the refinement loop. A class without a
\* representative (repr[c] = -1) would read idfa.states[-1]; `undef` stands
\* for what such a read yields.
minimize_build(idfa, partition, undef) ==
    LET count_classes == Max(Range(partition)) + 1
        members(c) == {i \in 0..(Len(partition) - 1) : partition[i + 1] = c}
        repr(c) == IF members(c) = {} THEN -1
                   ELSE CHOOSE i \in members(c) : \A j \in members(c) : i <= j
        class_accept(c) == \E i \in members(c) : idfa.states[i + 1].accept
        Wire(c) ==
            IF repr(c) < 0 THEN DFAState(c, class_accept(c), undef.t0, undef.t1)
            ELSE DFAState(c, class_accept(c),
                          partition[idfa.states[repr(c) + 1].t0 + 1],
                          partition[idfa.states[repr(c) + 1].t1 + 1])
    IN  [states |-> [k \in 1..count_classes |-> Wire(k - 1)],
         start  |-> partition[idfa.start + 1],
         trap   |-> partition[idfa.trap + 1]]

\* ------------------------------------------------------------- TrapRemover
\* Faulty variant of remove_trap: the trap state is cleared but the
\* transitions into it are kept.
remove_trap_keep_incoming(d) ==
    LET t == d.trap
    IN  IF t = -1 THEN d
        ELSE [d EXCEPT !.states[t + 1] = [@ EXCEPT !.accept = FALSE,
                                                    !.t0 = -1, !.t1 = -1],
                       !.trap = -1]

\* Faulty variant of remove_trap: the recorded trap index is not cleared.
remove_trap_keep_index(d) ==
    LET t == d.trap
        Cut(x) == IF x = t THEN -1 ELSE x
    IN  IF t = -1 THEN d
        ELSE [d EXCEPT !.states =
                 [k \in 1..Len(d.states) |->
                     IF k = t + 1
                     THEN [d.states[k] EXCEPT !.accept = FALSE,
                                              !.t0 = -1, !.t1 = -1]
                     ELSE [d.states[k] EXCEPT !.t0 = Cut(@), !.t1 = Cut(@)]]]

\* Faulty variant of remove_trap: it returns at once, as if no trap were
\* recorded.
remove_trap_noop(d) == d

remove_trap(d) ==
    LET t == d.trap
        Cut(x) == IF x = t THEN -1 ELSE x
        s1 == [k \in 1..Len(d.states) |->
                  [d.states[k] EXCEPT !.t0 = Cut(@), !.t1 = Cut(@)]]
        s2 == IF t >= 0 /\ t < Len(d.states)
              THEN [s1 EXCEPT ![t + 1] = [@ EXCEPT !.accept = FALSE,
                                                   !.t0 = -1, !.t1 = -1]]
              ELSE s1
    IN  IF t = -1 THEN d
        ELSE [d EXCEPT !.states = s2, !.trap = -1]

\* -------------------------------------------------------------- DFAPrinter
\* A state name "q" + to_string(n) is the pair <<"q", n>>; the empty name is
\* <<>>. stoi(name.substr(1)) is then name[2].
QName(n) == <<"q", n>>

NoName == <<>>

\* One `if (v >= 0 && v < n && !visited[v])` block of the loop of
\* name_states, on the loop state S = (queue, qname, qid_count).
visit(S, n, v) ==
    IF v >= 0 /\ v < n /\ S.names[v + 1] = NoName
    THEN [Q     |-> Append(S.Q, v),
          names |-> [S.names EXCEPT ![v + 1] = QName(S.cnt)],
          cnt   |-> S.cnt + 1]
    ELSE S

\* Faulty variant of name_loop: the symbol-1 successor is visited first.
RECURSIVE name_loop_one_first(_, _, _, _)
name_loop_one_first(idfa, Q, names, cnt) ==
    IF Q = <<>> THEN names
    ELSE Only({Only({name_loop_one_first(idfa, S1.Q, S1.names, S1.cnt)
            : S1 \in {visit(S0, Len(idfa.states), idfa.states[Head(Q) + 1].t0)}})
            : S0 \in {visit([Q |-> Tail(Q), names |-> names, cnt |-> cnt],
                            Len(idfa.states), idfa.states[Head(Q) + 1].t1)}})

\* The breadth-first loop of name_states: Q is the queue, names the qname
\* vector (visited[v] holds exactly when names[v] is set), cnt is qid_count.
\* The front is popped, then t0 and then t1 are visited.
RECURSIVE name_loop(_, _, _, _)
name_loop(idfa, Q, names, cnt) ==
    IF Q = <<>> THEN names
    ELSE Only({Only({name_loop(idfa, S1.Q, S1.names, S1.cnt)
            : S1 \in {visit(S0, Len(idfa.states), idfa.states[Head(Q) + 1].t1)}})
            : S0 \in {visit([Q |-> Tail(Q), names |-> names, cnt |-> cnt],
                            Len(idfa.states), idfa.states[Head(Q) + 1].t0)}})

name_states(idfa) ==
    LET blank == [k \in 1..Len(idfa.states) |-> NoName]
    IN  IF idfa.start >= 0 /\ idfa.start < Len(idfa.states)
        THEN name_loop(idfa, <<idfa.start>>,
                       [blank EXCEPT ![idfa.start + 1] = QName(0)], 1)
        ELSE blank

\* get_order: the pairs (name number, state id) of the named states, sorted.
get_order(qname) ==
    LET named == {i \in 0..(Len(qname) - 1) :
                     qname[i + 1] # NoName /\ qname[i + 1][1] = "q"}
        Before(i) == {j \in named : qname[j + 1][2] < qname[i + 1][2]
                                    \/ (qname[j + 1][2] = qname[i + 1][2] /\ j < i)}
    IN  [k \in 1..Cardinality(named) |->
            LET i == CHOOSE i \in named : Cardinality(Before(i)) = k - 1
            IN  <<qname[i + 1][2], i>>]

\* The letter N written for a missing successor, as a one-token piece of a
\* line like the names.
NoTransition == <<"N">>

\* print_transition: the text written for a successor.
print_transition(tid, qname) ==
    IF tid = -1 \/ tid >= Len(qname) \/ qname[tid + 1] = NoName
    THEN NoTransition ELSE qname[tid + 1]

\* Faulty variant of process_symbol: the short production of a symbol is
\* appended right after its long production.
process_symbol_interleaved(idfa, stid, qname) ==
    LET nxt(c) == IF c = 0 THEN idfa.states[stid + 1].t0
                  ELSE idfa.states[stid + 1].t1
        valid(c) == ~(nxt(c) = -1 \/ nxt(c) >= Len(qname)
                      \/ qname[nxt(c) + 1] = NoName)
        lhs == qname[stid + 1]
        next_is_accept(c) == idfa.states[nxt(c) + 1].accept
        long(c) ==
            IF valid(c) /\ ~(next_is_accept(c)
                             /\ idfa.states[nxt(c) + 1].t0 = -1
                             /\ idfa.states[nxt(c) + 1].t1 = -1)
            THEN <<<<lhs, "->", c, qname[nxt(c) + 1]>>>> ELSE <<>>
        short(c) ==
            IF valid(c) /\ next_is_accept(c) THEN <<<<lhs, "->", c>>>> ELSE <<>>
    IN  long(0) \o short(0) \o long(1) \o short(1)

\* process_symbol: the productions of state stid, in the order they are
\* appended to `productions`. lhs + "->" + to_string(c) + name is the tuple
\* <<lhs, "->", c, name>>, and lhs + "->" + to_string(c) is <<lhs, "->", c>>.
process_symbol(idfa, stid, qname) ==
    LET nxt(c) == IF c = 0 THEN idfa.states[stid + 1].t0
                  ELSE idfa.states[stid + 1].t1
        valid(c) == ~(nxt(c) = -1 \/ nxt(c) >= Len(qname)
                      \/ qname[nxt(c) + 1] = NoName)
        lhs == qname[stid + 1]
        next_is_accept(c) == idfa.states[nxt(c) + 1].accept
        long(c) ==
            IF valid(c) /\ ~(next_is_accept(c)
                             /\ idfa.states[nxt(c) + 1].t0 = -1
                             /\ idfa.states[nxt(c) + 1].t1 = -1)
            THEN <<<<lhs, "->", c, qname[nxt(c) + 1]>>>> ELSE <<>>
        short(c) ==
            IF valid(c) /\ next_is_accept(c) THEN <<<<lhs, "->", c>>>> ELSE <<>>
        production0 == short(0) \o short(1)
    IN  long(0) \o long(1) \o production0

RECURSIVE Flatten(_)
Flatten(ss) == IF ss = <<>> THEN <<>> ELSE Head(ss) \o Flatten(Tail(ss))

\* print_and_convert_to_RG: everything written to standard output, as the
\* header line, the table rows and the grammar lines.
print_and_convert_to_RG(idfa) ==
    Only({Only({
        [header  |-> "      0 1",
         rows    |-> [k \in 1..Len(order) |->
                        [start_mark  |-> (order[k][2] = idfa.start),
                         accept_mark |-> idfa.states[order[k][2] + 1].accept,
                         name        |-> qname[order[k][2] + 1],
                         on0         |-> print_transition(
                                            idfa.states[order[k][2] + 1].t0, qname),
                         on1         |-> print_transition(
                                            idfa.states[order[k][2] + 1].t1, qname)]],
         grammar |-> Flatten([k \in 1..Len(order) |->
                                 process_symbol(idfa, order[k][2], qname)])]
        : order \in {get_order(qname)}})
        : qname \in {name_states(idfa)}})

NoOutput == [header |-> "", rows |-> <<>>, grammar |-> <<>>]

\* round and first serve the check of re-minimization only: round counts the
\* calls of minimize() and first keeps the result of the first call. The
\* program's run calls minimize() once.
\* parser is the state of a RegexParser while parse() runs stepwise: its
\* member pos, the call stack, the value last returned and the number of
\* nodes allocated with new. The pipeline runs parse() as one step.
VARIABLES pc, re, root, enfa, eps_closures, ci, st, nfa, state_map,
          dfa_sets, q, tmp, dfa, partition, changed, passes, mdfa, out,
          round, first, parser

vars == <<pc, re, root, enfa, eps_closures, ci, st, nfa, state_map, dfa_sets,
          q, tmp, dfa, partition, changed, passes, mdfa, out, round, first,
          parser>>

\* RegexParser(s): pos(0), nothing called yet.
NoParser == [pos |-> 0, stack |-> <<>>, ret |-> Null, allocs |-> 0]

Init ==
    /\ re \in RegexInputs
    /\ pc = "parse"
    /\ root = Null
    /\ enfa = EmptyNFA
    /\ eps_closures = <<>>
    /\ ci = 0
    /\ st = <<>>
    /\ nfa = EmptyNFA
    /\ state_map = <<>>
    /\ dfa_sets = <<>>
    /\ q = <<>>
    /\ tmp = <<>>
    /\ dfa = EmptyDFA
    /\ partition = <<>>
    /\ changed = FALSE
    /\ passes = 0
    /\ mdfa = EmptyDFA
    /\ out = NoOutput
    /\ round = 1
    /\ first = EmptyDFA
    /\ parser = NoParser

Parse ==
    /\ pc = "parse"
    /\ root' = parse(re).node
    /\ pc' = "thompson"
    /\ UNCHANGED <<parser, re, enfa, eps_closures, ci, st, nfa, state_map, dfa_sets,
                   q, tmp, dfa, partition, changed, passes, mdfa, out, round,
                   first>>

Build ==
    /\ pc = "thompson"
    /\ enfa' = build(root)
    /\ pc' = "eps"
    /\ UNCHANGED <<parser, re, root, eps_closures, ci, st, nfa, state_map, dfa_sets,
                   q, tmp, dfa, partition, changed, passes, mdfa, out, round,
                   first>>

\* EpsilonRemover::remove, up to the head of its first loop.
EpsStart ==
    /\ pc = "eps"
    /\ eps_closures' = [k \in 1..Len(enfa.states) |-> {}]
    /\ ci' = 0
    /\ pc' = "closure"
    /\ UNCHANGED <<parser, re, root, enfa, st, nfa, state_map, dfa_sets, q, tmp, dfa,
                   partition, changed, passes, mdfa, out, round, first>>

\* The loop head `i < size` and the entry of compute_epsilon_closure(i).
ClosureCall ==
    /\ pc = "closure"
    /\ ci < Len(enfa.states)
    /\ IF eps_closures[ci + 1] # {}
       THEN /\ ci' = ci + 1
            /\ UNCHANGED <<parser, eps_closures, st, pc>>
       ELSE /\ st' = <<ci>>
            /\ eps_closures' = [eps_closures EXCEPT ![ci + 1] = {ci}]
            /\ pc' = "closure_loop"
            /\ UNCHANGED ci
    /\ UNCHANGED <<parser, re, root, enfa, nfa, state_map, dfa_sets, q, tmp, dfa,
                   partition, changed, passes, mdfa, out, round, first>>

\* One iteration of the traversal; when it empties the stack the call
\* returns and the outer loop advances.
ClosurePop ==
    /\ pc = "closure_loop"
    /\ st # <<>>
    /\ LET r == closure_iteration(enfa, eps_closures[ci + 1], st)
       IN  /\ eps_closures' = [eps_closures EXCEPT ![ci + 1] = r.closure]
           /\ st' = r.st
           /\ IF r.st = <<>>
              THEN ci' = ci + 1 /\ pc' = "closure"
              ELSE UNCHANGED <<parser, ci, pc>>
    /\ UNCHANGED <<parser, re, root, enfa, nfa, state_map, dfa_sets, q, tmp, dfa,
                   partition, changed, passes, mdfa, out, round, first>>

\* The rest of remove(), once every closure is computed.
EpsBuild ==
    /\ pc = "closure"
    /\ ci >= Len(enfa.states)
    /\ nfa' = remove_build(enfa, eps_closures)
    /\ pc' = "subset"
    /\ UNCHANGED <<parser, re, root, enfa, eps_closures, ci, st, state_map, dfa_sets,
                   q, tmp, dfa, partition, changed, passes, mdfa, out, round,
                   first>>

\* convert(), up to the head of the worklist loop.
SubsetStart ==
    /\ pc = "subset"
    /\ LET start_set == {nfa.start}
       IN  /\ q' = <<start_set>>
           /\ state_map' = (start_set :> 0)
           /\ dfa_sets' = <<start_set>>
    /\ tmp' = <<>>
    /\ pc' = "subset_loop"
    /\ UNCHANGED <<parser, re, root, enfa, eps_closures, ci, st, nfa, dfa, partition,
                   changed, passes, mdfa, out, round, first>>

SubsetStep ==
    /\ pc = "subset_loop"
    /\ q # <<>>
    /\ LET r == convert_iteration(nfa, state_map, dfa_sets, q, tmp)
       IN  /\ state_map' = r.m
           /\ dfa_sets' = r.d
           /\ q' = r.q
           /\ tmp' = r.tmp
    /\ UNCHANGED <<parser, pc, re, root, enfa, eps_closures, ci, st, nfa, dfa,
                   partition, changed, passes, mdfa, out, round, first>>

SubsetFinish ==
    /\ pc = "subset_loop"
    /\ q = <<>>
    /\ \E undef \in UninitDFAStates :
           dfa' = convert_finish(state_map, dfa_sets, tmp, undef)
    /\ pc' = "min"
    /\ UNCHANGED <<parser, re, root, enfa, eps_closures, ci, st, nfa, state_map,
                   dfa_sets, q, tmp, partition, changed, passes, mdfa, out,
                   round, first>>

\* minimize(), up to the head of the refinement loop.
MinStart ==
    /\ pc = "min"
    /\ partition' = initial_partition(dfa)
    /\ changed' = TRUE
    /\ passes' = 0
    /\ pc' = "min_loop"
    /\ UNCHANGED <<parser, re, root, enfa, eps_closures, ci, st, nfa, state_map,
                   dfa_sets, q, tmp, dfa, mdfa, out, round, first>>

\* One pass of `while (changed)`.
MinPass ==
    /\ pc = "min_loop"
    /\ changed
    /\ LET new_partition == refine_pass(dfa, partition)
       IN  IF new_partition # partition
           THEN partition' = new_partition /\ changed' = TRUE
           ELSE partition' = partition /\ changed' = FALSE
    /\ passes' = passes + 1
    /\ UNCHANGED <<parser, pc, re, root, enfa, eps_closures, ci, st, nfa, state_map,
                   dfa_sets, q, tmp, dfa, mdfa, out, round, first>>

MinBuild ==
    /\ pc = "min_loop"
    /\ ~changed
    /\ \E undef \in UninitDFAStates :
           mdfa' = minimize_build(dfa, partition, undef)
    /\ pc' = "trap"
    /\ UNCHANGED <<parser, re, root, enfa, eps_closures, ci, st, nfa, state_map,
                   dfa_sets, q, tmp, dfa, partition, changed, passes, out,
                   round, first>>

\* TrapRemover tr(mdfa); tr.remove_trap(): works on mdfa through a reference.
RemoveTrap ==
    /\ pc = "trap"
    /\ mdfa' = remove_trap(mdfa)
    /\ pc' = "print"
    /\ UNCHANGED <<parser, re, root, enfa, eps_closures, ci, st, nfa, state_map,
                   dfa_sets, q, tmp, dfa, partition, changed, passes, out,
                   round, first>>

\* DFAPrinter printer(mdfa); printer.print_and_convert_to_RG(); return 0
Render ==
    /\ pc = "print"
    /\ out' = print_and_convert_to_RG(mdfa)
    /\ pc' = "done"
    /\ UNCHANGED <<parser, re, root, enfa, eps_closures, ci, st, nfa, state_map,
                   dfa_sets, q, tmp, dfa, partition, changed, passes, mdfa,
                   round, first>>

\* A second call of minimize(), on the result of the first.
ReMinimize ==
    /\ pc = "trap"
    /\ round = 1
    /\ first' = mdfa
    /\ dfa' = mdfa
    /\ round' = 2
    /\ pc' = "min"
    /\ UNCHANGED <<parser, re, root, enfa, eps_closures, ci, st, nfa, state_map,
                   dfa_sets, q, tmp, partition, changed, passes, mdfa, out>>

Next ==
    \/ Parse \/ Build \/ EpsStart \/ ClosureCall \/ ClosurePop \/ EpsBuild
    \/ SubsetStart \/ SubsetStep \/ SubsetFinish
    \/ MinStart \/ MinPass \/ MinBuild \/ RemoveTrap \/ Render

Spec == Init /\ [][Next]_vars

\* The run of the program is sequential and never blocks: a step that can be
\* taken is taken.
FairSpec == Spec /\ WF_vars(Next)

\* ------------------------------------------- minimize() applied twice
MaxDfaStates == 3

\* A complete DFA shaped like the results of convert(): n states, start 0,
\* the last state the trap (non-accepting, looping to itself), the other
\* states with the accept flags and successors given by f.
DFAInput(n, f) ==
    [states |-> [k \in 1..n |->
                    IF k = n THEN DFAState(n - 1, FALSE, n - 1, n - 1)
                    ELSE DFAState(k - 1, f[k].accept, f[k].t0, f[k].t1)],
     start  |-> 0,
     trap   |-> n - 1]

InitReMin ==
    /\ \E n \in 2..MaxDfaStates :
           \E f \in [1..(n - 1) -> [accept : BOOLEAN, t0 : 0..(n - 1),
                                    t1 : 0..(n - 1)]] :
               dfa = DFAInput(n, f)
    /\ pc = "min"
    /\ re = <<>>
    /\ root = Null
    /\ enfa = EmptyNFA
    /\ eps_closures = <<>>
    /\ ci = 0
    /\ st = <<>>
    /\ nfa = EmptyNFA
    /\ state_map = <<>>
    /\ dfa_sets = <<>>
    /\ q = <<>>
    /\ tmp = <<>>
    /\ partition = <<>>
    /\ changed = FALSE
    /\ passes = 0
    /\ mdfa = EmptyDFA
    /\ out = NoOutput
    /\ round = 1
    /\ first = EmptyDFA
    /\ parser = NoParser

NextReMin == MinStart \/ MinPass \/ MinBuild \/ ReMinimize

SpecReMin == InitReMin /\ [][NextReMin]_vars

\* ------------------------------------------- parse() on any input string
\* The parser run step by step on every string, well formed or not. A step
\* is the code of one parse function between two calls or returns.
MaxInputLen == 3

\* Nodes the heap has room for; `new` beyond it throws std::bad_alloc.
\* A parse of n characters that returns allocates fewer than 2 n nodes.
MaxHeapNodes == 8

\* "a" stands for every character other than 0 1 + * ( ).
InputChars == {"0", "1", "+", "*", "(", ")", "a"}

\* One activation of a parse function: where it is and its local `node`.
Frame(fn, at, node) == [fn |-> fn, at |-> at, node |-> node]

ParserFrame == parser.stack[Len(parser.stack)]

\* str[pos], or "" when pos >= str.size().
Peek(pos) == IF pos < Len(re) THEN re[pos + 1] ELSE ""

OtherVars == <<re, enfa, eps_closures, ci, st, nfa, state_map, dfa_sets, q,
               tmp, dfa, partition, changed, passes, mdfa, out, round, first>>

\* The running function keeps `node`, will resume at `at`, and calls fn.
Enter(at, node, fn, pos, allocs) ==
    /\ parser' = [pos    |-> pos,
                  stack  |-> Append(SubSeq(parser.stack, 1, Len(parser.stack) - 1),
                                    Frame(ParserFrame.fn, at, node))
                             \o <<Frame(fn, "entry", Null)>>,
                  ret    |-> parser.ret,
                  allocs |-> allocs]
    /\ UNCHANGED <<pc, root>>

\* The running function stays in its own loop.
Stay(at, node, pos, allocs) ==
    /\ parser' = [pos    |-> pos,
                  stack  |-> Append(SubSeq(parser.stack, 1, Len(parser.stack) - 1),
                                    Frame(ParserFrame.fn, at, node)),
                  ret    |-> parser.ret,
                  allocs |-> allocs]
    /\ UNCHANGED <<pc, root>>

\* The running function returns v; the outermost return is that of parse().
Leave(v, pos, allocs) ==
    /\ parser' = [pos    |-> pos,
                  stack  |-> SubSeq(parser.stack, 1, Len(parser.stack) - 1),
                  ret    |-> v,
                  allocs |-> allocs]
    /\ IF Len(parser.stack) = 1
       THEN pc' = "parsed" /\ root' = v
       ELSE UNCHANGED <<pc, root>>

\* `new RegexNode` with the heap exhausted: the exception leaves parse().
Throw ==
    /\ pc' = "bad_alloc"
    /\ UNCHANGED <<root, parser>>

StepUnion ==
    /\ pc = "parsing"
    /\ ParserFrame.fn = "parseUnion"
    /\ LET LoopHead(node, allocs) ==
               IF Peek(parser.pos) = "+"
               THEN Enter("right", node, "parseConcat", parser.pos + 1, allocs)
               ELSE Leave(node, parser.pos, allocs)
       IN  CASE ParserFrame.at = "entry" ->
                    Enter("first", Null, "parseConcat", parser.pos, parser.allocs)
             [] ParserFrame.at = "first" ->
                    LoopHead(parser.ret, parser.allocs)
             [] ParserFrame.at = "right" ->
                    IF parser.allocs >= MaxHeapNodes THEN Throw
                    ELSE LoopHead(RegexNode("UNION", EPS, ParserFrame.node,
                                            parser.ret),
                                  parser.allocs + 1)
    /\ UNCHANGED OtherVars

StepConcat ==
    /\ pc = "parsing"
    /\ ParserFrame.fn = "parseConcat"
    /\ LET LoopHead(node, allocs) ==
               IF parser.pos < Len(re) /\ Peek(parser.pos) # ")"
                                       /\ Peek(parser.pos) # "+"
               THEN Enter("right", node, "parseStar", parser.pos, allocs)
               ELSE Leave(node, parser.pos, allocs)
       IN  CASE ParserFrame.at = "entry" ->
                    Enter("first", Null, "parseStar", parser.pos, parser.allocs)
             [] ParserFrame.at = "first" ->
                    LoopHead(parser.ret, parser.allocs)
             [] ParserFrame.at = "right" ->
                    IF parser.allocs >= MaxHeapNodes THEN Throw
                    ELSE LoopHead(RegexNode("CONCAT", EPS, ParserFrame.node,
                                            parser.ret),
                                  parser.allocs + 1)
    /\ UNCHANGED OtherVars

StepStar ==
    /\ pc = "parsing"
    /\ ParserFrame.fn = "parseStar"
    /\ LET Loop(node) ==
               IF Peek(parser.pos) = "*"
               THEN IF parser.allocs >= MaxHeapNodes THEN Throw
                    ELSE Stay("loop", RegexNode("STAR", EPS, node, Null),
                              parser.pos + 1, parser.allocs + 1)
               ELSE Leave(node, parser.pos, parser.allocs)
       IN  CASE ParserFrame.at = "entry" ->
                    Enter("first", Null, "parseBase", parser.pos, parser.allocs)
             [] ParserFrame.at = "first" -> Loop(parser.ret)
             [] ParserFrame.at = "loop" -> Loop(ParserFrame.node)
    /\ UNCHANGED OtherVars

StepBase ==
    /\ pc = "parsing"
    /\ ParserFrame.fn = "parseBase"
    /\ CASE ParserFrame.at = "entry" ->
                IF parser.pos >= Len(re)
                THEN Leave(Null, parser.pos, parser.allocs)
                ELSE IF Peek(parser.pos) = "("
                THEN Enter("inner", Null, "parseUnion", parser.pos + 1,
                           parser.allocs)
                ELSE IF Peek(parser.pos) = "0" \/ Peek(parser.pos) = "1"
                THEN IF parser.allocs >= MaxHeapNodes THEN Throw
                     ELSE Leave(RegexNode("CHAR", Peek(parser.pos), Null, Null),
                                parser.pos + 1, parser.allocs + 1)
                ELSE Leave(Null, parser.pos, parser.allocs)
         [] ParserFrame.at = "inner" ->
                IF Peek(parser.pos) = ")"
                THEN Leave(parser.ret, parser.pos + 1, parser.allocs)
                ELSE Leave(parser.ret, parser.pos, parser.allocs)
    /\ UNCHANGED OtherVars

\* RegexParser parser(re); parser.parse() for any string re.
InitParse ==
    /\ \E n \in 0..MaxInputLen : re \in [1..n -> InputChars]
    /\ pc = "parsing"
    /\ parser = [pos |-> 0, stack |-> <<Frame("parseUnion", "entry", Null)>>,
                 ret |-> Null, allocs |-> 0]
    /\ root = Null
    /\ enfa = EmptyNFA
    /\ eps_closures = <<>>
    /\ ci = 0
    /\ st = <<>>
    /\ nfa = EmptyNFA
    /\ state_map = <<>>
    /\ dfa_sets = <<>>
    /\ q = <<>>
    /\ tmp = <<>>
    /\ dfa = EmptyDFA
    /\ partition = <<>>
    /\ changed = FALSE
    /\ passes = 0
    /\ mdfa = EmptyDFA
    /\ out = NoOutput
    /\ round = 1
    /\ first = EmptyDFA

NextParse == StepUnion \/ StepConcat \/ StepStar \/ StepBase

SpecParse == InitParse /\ [][NextParse]_vars

\* The parser is sequential code that keeps running.
FairSpecParse == SpecParse /\ WF_vars(NextParse)

\* ======================================================= reference notions
\* All strings over {0,1} of length at most n.
WordsOfLen(k) == [1..k -> {"0", "1"}]

Words(n) == UNION {WordsOfLen(k) : k \in 0..n}

AllWords == Words(MaxWordLen)

\* L(x*) restricted to length <= n: the empty string, and every string that
\* splits into a non-empty member of L(x) followed by a member of L(x*).
RECURSIVE StarUpTo(_, _)
StarUpTo(Lx, n) ==
    IF n = 0 THEN {<<>>}
    ELSE LET S == StarUpTo(Lx, n - 1)
         IN  S \cup {w \in WordsOfLen(n) :
                        \E k \in 1..n : /\ SubSeq(w, 1, k) \in Lx
                                        /\ SubSeq(w, k + 1, n) \in S}

\* The members of length <= MaxWordLen of the language a tree denotes.
RECURSIVE Lang(_)
Lang(t) ==
    CASE t.type = "CHAR" -> {<<t.ch>>}
      [] t.type = "UNION" -> Lang(t.left) \cup Lang(t.right)
      [] t.type = "CONCAT" ->
            LET L1 == Lang(t.left)
                L2 == Lang(t.right)
            IN  {w \in AllWords :
                    \E k \in 0..Len(w) : /\ SubSeq(w, 1, k) \in L1
                                         /\ SubSeq(w, k + 1, Len(w)) \in L2}
      [] t.type = "STAR" -> StarUpTo(Lang(t.left), MaxWordLen)

\* The state a DFA is in after reading w from state s; -1 once a transition
\* is missing.
RECURSIVE Run(_, _, _)
Run(d, s, w) ==
    IF s < 0 \/ w = <<>> THEN s
    ELSE Run(d, IF Head(w) = "0" THEN d.states[s + 1].t0 ELSE d.states[s + 1].t1,
             Tail(w))

AcceptsFrom(d, s, w) ==
    LET e == Run(d, s, w) IN e >= 0 /\ d.states[e + 1].accept

Accepts(d, w) == AcceptsFrom(d, d.start, w)

\* The states reachable from the start state through existing transitions.
RECURSIVE ReachFrom(_, _)
ReachFrom(d, S) ==
    LET N == S \cup {x \in UNION {{d.states[s + 1].t0, d.states[s + 1].t1} : s \in S} :
                        x >= 0}
    IN  IF N = S THEN S ELSE ReachFrom(d, N)

Reach(d) == ReachFrom(d, {d.start})

\* ---------------------------------------------------------------- C1
\* C1: at the end of the run, for every string w over {0,1} of length at most
\* MaxWordLen, the final automaton accepts w (missing transition = reject)
\* iff w is in the language denoted by the input regex.
AcceptanceCorrect ==
    pc = "done" =>
        LET L == Lang(RefParse(re))
        IN  \A w \in AllWords : Accepts(mdfa, w) <=> w \in L

\* A run where minimization merged states, a string of length >= 2 is
\* accepted and another is rejected through a missing transition.
AcceptanceWitness ==
    /\ pc = "done"
    /\ Len(mdfa.states) < Len(dfa.states)
    /\ \E w \in AllWords : Len(w) >= 2 /\ Accepts(mdfa, w)
    /\ \E w \in AllWords : Run(mdfa, mdfa.start, w) = -1

\* ---------------------------------------------------------------- C2
\* Derivability in the emitted right-linear grammar: S derives w through a
\* production S->c when w = c, and through S->cT when w = c v and T derives v.
SymOf(ch) == IF ch = "0" THEN 0 ELSE 1

RECURSIVE Derives(_, _, _)
Derives(G, S, w) ==
    IF w = <<>> THEN FALSE
    ELSE IF Len(w) = 1 THEN <<S, "->", SymOf(w[1])>> \in G
    ELSE \E p \in G : /\ Len(p) = 4
                      /\ p[1] = S
                      /\ p[3] = SymOf(w[1])
                      /\ Derives(G, p[4], Tail(w))

Grammar == Range(out.grammar)

\* C2: every string up to MaxWordLen, the empty one included, is derivable
\* from q0 in the emitted grammar iff the final automaton accepts it.
GrammarEquivalentAll ==
    pc = "done" =>
        \A w \in AllWords : Derives(Grammar, QName(0), w) <=> Accepts(mdfa, w)

\* ---------------------------------------------------------------- C3
\* C3: no two distinct states of the final automaton that are reachable from
\* the start state are equivalent: some string of length at most MaxWordLen
\* is accepted from one and rejected from the other.
NoEquivalentStates ==
    pc = "done" =>
        \A s \in Reach(mdfa) : \A t \in Reach(mdfa) :
            s # t => \E w \in AllWords :
                        AcceptsFrom(mdfa, s, w) # AcceptsFrom(mdfa, t, w)

\* A run that ends with at least three reachable states after the minimizer
\* merged states of the subset automaton.
NoEquivalentWitness ==
    /\ pc = "done"
    /\ Cardinality(Reach(mdfa)) >= 3
    /\ Len(mdfa.states) < Len(dfa.states)

\* ---------------------------------------------------------------- C4
\* Myhill-Nerode classes of a language L, as residuals: the class of a prefix
\* u is the set of continuations v with u v in L. Prefixes range over
\* Words(PrefixLen), continuations over Words(SuffixLen).
PrefixLen == MaxWordLen \div 2

SuffixLen == MaxWordLen - PrefixLen

Residual(L, u) == {v \in Words(SuffixLen) : u \o v \in L}

Residuals(L) == {Residual(L, u) : u \in Words(PrefixLen)}

\* C4 as stated: the number of reachable states of the final automaton is
\* the number of Myhill-Nerode classes of the regex's language.
StateCountIsMyhillNerode ==
    pc = "done" =>
        Cardinality(Reach(mdfa)) = Cardinality(Residuals(Lang(RefParse(re))))

\* C4 amended: the number of reachable states of the final automaton, which
\* is the number of rows printed, is the number of Myhill-Nerode classes
\* other than the dead class (the strings that are a prefix of no member).
StateCountIsLiveMyhillNerode ==
    pc = "done" =>
        LET live == Residuals(Lang(RefParse(re))) \ {{}}
        IN  /\ Cardinality(Reach(mdfa)) = Cardinality(live)
            /\ Len(out.rows) = Cardinality(live)

\* A run for a language that has a dead class and at least two live ones.
StateCountWitness ==
    /\ pc = "done"
    /\ {} \in Residuals(Lang(RefParse(re)))
    /\ Len(out.rows) >= 2

\* ---------------------------------------------------------------- C5
SameState(g, i, j) == g[i][1] = g[j][1]

\* C5 as stated: among the productions of one state, every symbol-0
\* production comes before every symbol-1 production.
SymbolZeroFirst ==
    pc = "done" =>
        \A i \in 1..Len(out.grammar) : \A j \in 1..Len(out.grammar) :
            (i < j /\ SameState(out.grammar, i, j))
                => ~(out.grammar[i][3] = 1 /\ out.grammar[j][3] = 0)

\* C5 amended: among the productions of one state, every production S->cT
\* comes before every production S->c, and within each form symbol 0 comes
\* before symbol 1; for a single accepting state with both self-loops the
\* sequence is q0->0q0, q0->1q0, q0->0, q0->1.
LongFormsFirst ==
    pc = "done" =>
        /\ \A i \in 1..Len(out.grammar) : \A j \in 1..Len(out.grammar) :
               (i < j /\ SameState(out.grammar, i, j))
                   => \/ Len(out.grammar[i]) > Len(out.grammar[j])
                      \/ /\ Len(out.grammar[i]) = Len(out.grammar[j])
                         /\ out.grammar[i][3] < out.grammar[j][3]
        /\ (/\ Len(out.rows) = 1
            /\ out.rows[1].accept_mark
            /\ out.rows[1].on0 = QName(0)
            /\ out.rows[1].on1 = QName(0))
               => out.grammar = << <<QName(0), "->", 0, QName(0)>>,
                                   <<QName(0), "->", 1, QName(0)>>,
                                   <<QName(0), "->", 0>>,
                                   <<QName(0), "->", 1>> >>

\* The run of a single accepting state with self-loops on both symbols.
LongFormsWitness ==
    /\ pc = "done"
    /\ Len(out.rows) = 1
    /\ out.rows[1].accept_mark
    /\ out.rows[1].on0 = QName(0)
    /\ out.rows[1].on1 = QName(0)
    /\ Len(out.grammar) = 4

\* ---------------------------------------------------------------- C7
\* C7: for every well-formed regex string, parse consumes the whole input and
\* returns the tree of the reference reading (star over concatenation over
\* union, binary operators associating to the left, parentheses grouping).
ParseMatchesReference ==
    pc = "thompson" =>
        /\ RefParse(re) # Null
        /\ root = RefParse(re)
        /\ parse(re).pos = Len(re)

\* A parsed input in which parentheses put a union under a concatenation.
ParseWitness ==
    /\ pc = "thompson"
    /\ root.type = "CONCAT"
    /\ root.left.type = "UNION"
    /\ root = RefParse(re)

\* ---------------------------------------------------------------- C8
\* Shortlex order on strings over {0,1}: shorter first, then 0 before 1.
ShortLexLess(a, b) ==
    \/ Len(a) < Len(b)
    \/ /\ Len(a) = Len(b)
       /\ \E i \in 1..Len(a) : /\ SubSeq(a, 1, i - 1) = SubSeq(b, 1, i - 1)
                               /\ a[i] = "0" /\ b[i] = "1"

\* The shortlex-least string that leads from the start state to s.
MinWord(d, s) ==
    LET A == {w \in AllWords : Run(d, d.start, w) = s}
    IN  CHOOSE w \in A : \A x \in A : x = w \/ ShortLexLess(w, x)

Injective(f) == \A x \in DOMAIN f : \A y \in DOMAIN f : f[x] = f[y] => x = y

\* a and b have the same number of states and some bijection between their
\* states preserves start, trap, accept flags and both transitions.
Isomorphic(a, b) ==
    LET n == Len(a.states)
        I == 0..(n - 1)
    IN  /\ Len(b.states) = n
        /\ \E f \in [I -> I] :
               /\ Injective(f)
               /\ b.start = f[a.start]
               /\ b.trap = f[a.trap]
               /\ \A i \in I :
                      /\ b.states[f[i] + 1].accept = a.states[i + 1].accept
                      /\ b.states[f[i] + 1].t0 = f[a.states[i + 1].t0]
                      /\ b.states[f[i] + 1].t1 = f[a.states[i + 1].t1]

\* C6: minimize() applied to a result of minimize() (a complete DFA that
\* still has its trap) returns a DFA isomorphic to its input.
ReMinimizeIsomorphic ==
    (pc = "trap" /\ round = 2) => Isomorphic(first, mdfa)

\* A second call that ran on a minimized DFA of at least three states and
\* needed more than one refinement pass.
ReMinimizeWitness ==
    /\ pc = "trap"
    /\ round = 2
    /\ Len(first.states) >= 3
    /\ passes >= 2
    /\ \E k \in 1..Len(first.states) : first.states[k].accept

\* ---------------------------------------------------------------- C9
\* C9 as stated: every stage leaves the automaton it receives unchanged; in
\* particular trap elimination leaves the minimizer's result as it was.
StagesLeaveInputsUnchanged ==
    [][/\ (pc = "thompson" => root' = root)
       /\ (pc \in {"eps", "closure", "closure_loop"} => enfa' = enfa)
       /\ (pc \in {"subset", "subset_loop"} => nfa' = nfa)
       /\ (pc \in {"min", "min_loop"} => dfa' = dfa)
       /\ (pc = "trap" => mdfa' = mdfa)]_vars

\* C9 amended: every stage up to the minimizer leaves the structure it
\* receives unchanged; the trap eliminator rewrites the minimizer's result in
\* place, which afterwards has trap index -1 and no transition into the
\* former trap; no later step changes an automaton again.
OnlyTrapRemoverRewrites ==
    [][/\ (pc = "thompson" => root' = root)
       /\ (pc \in {"eps", "closure", "closure_loop"} => enfa' = enfa)
       /\ (pc \in {"subset", "subset_loop"} => nfa' = nfa)
       /\ (pc \in {"min", "min_loop"} => dfa' = dfa)
       /\ (pc = "trap" =>
              /\ mdfa' # mdfa
              /\ mdfa'.trap = -1
              /\ \A k \in 1..Len(mdfa'.states) :
                     /\ mdfa'.states[k].t0 # mdfa.trap
                     /\ mdfa'.states[k].t1 # mdfa.trap
              /\ <<enfa, nfa, dfa>>' = <<enfa, nfa, dfa>>)
       /\ (pc = "print" => <<enfa, nfa, dfa, mdfa>>' = <<enfa, nfa, dfa, mdfa>>)
      ]_vars

\* The state right after trap elimination of a minimized DFA that had
\* transitions into its trap: the subset automaton still has its trap.
TrapRewrittenWitness ==
    /\ pc = "print"
    /\ mdfa.trap = -1
    /\ dfa.trap >= 0
    /\ \E k \in 1..Len(mdfa.states) :
           mdfa.states[k].accept /\ mdfa.states[k].t0 = -1

\* ---------------------------------------------------------------- C10
\* C10: every run terminates: it reaches the end of the rendering stage,
\* so each closure traversal, the worklist loop and the refinement loop ended.
Terminates == <>(pc = "done")

\* A finished run whose loops all iterated: a closure of at least three
\* states, at least three discovered subsets, at least three refinement passes.
TerminatesWitness ==
    /\ pc = "done"
    /\ \E k \in 1..Len(eps_closures) : Cardinality(eps_closures[k]) >= 3
    /\ Len(dfa_sets) >= 3
    /\ passes >= 3

\* ---------------------------------------------------------------- C11
\* C11: on every input string, malformed ones included, parse() terminates:
\* it returns a node or null, and no error is raised.
ParseAlwaysReturns == <>(pc = "parsed")

\* The same as a property of finished computations: parse() never ends by an
\* exception.
ParseNeverThrows == pc # "bad_alloc"

\* ---------------------------------------------------------------- C12
\* C12: when the refinement loop has reached its fixpoint, two states of the
\* input DFA are in the same class iff they have the same accept flag and,
\* for each symbol, successors in the same class; so the state wired for a
\* class is the same whichever member stands for it.
PartitionIsCongruence ==
    (pc = "min_loop" /\ ~changed) =>
        LET S == 1..Len(dfa.states)
            Sig(i) == <<dfa.states[i].accept,
                        partition[dfa.states[i].t0 + 1],
                        partition[dfa.states[i].t1 + 1]>>
        IN  /\ \A i \in S : \A j \in S :
                   (partition[i] = partition[j]) <=> (Sig(i) = Sig(j))
            /\ \A undef \in UninitDFAStates : \A i \in S :
                   minimize_build(dfa, partition, undef).states[partition[i] + 1]
                       = DFAState(partition[i], Sig(i)[1], Sig(i)[2], Sig(i)[3])

\* A fixpoint reached after at least three passes, with a class of several
\* states among at least four classes.
PartitionWitness ==
    /\ pc = "min_loop"
    /\ ~changed
    /\ passes >= 3
    /\ Cardinality(Range(partition)) >= 4
    /\ \E i \in 1..Len(dfa.states) : \E j \in 1..Len(dfa.states) :
           i < j /\ partition[i] = partition[j]

\* ---------------------------------------------------------------- C13
\* C13: a pass of the refinement loop never puts two states of different
\* classes into one class, and the number of passes made, the last one that
\* finds no change included, is at most the number of states.
RefinementOnlySplits ==
    [][(pc = "min_loop" /\ pc' = "min_loop") =>
           /\ \A i \in 1..Len(dfa.states) : \A j \in 1..Len(dfa.states) :
                  partition[i] # partition[j] => partition'[i] # partition'[j]
           /\ passes' <= Len(dfa.states)]_vars

\* The loop left after as many passes as a DFA with a trap allows: one less
\* than its number of states, every pass but the last splitting a class.
RefinementWitness ==
    /\ pc = "min_loop"
    /\ ~changed
    /\ passes >= 3
    /\ passes = Len(dfa.states) - 1

\* ---------------------------------------------------------------- C14
\* The NFA states one step on c away from a member of the subset S.
Successors(S, c) ==
    {x \in 0..(Len(nfa.states) - 1) :
        \E s \in S : c \in DOMAIN nfa.states[s + 1].trans
                     /\ \E k \in 1..Len(nfa.states[s + 1].trans[c]) :
                            nfa.states[s + 1].trans[c][k] = x}

\* The place in processing order of the transition that first led to index
\* j: 2 k + c for the processed state k and the symbol c.
Discovery(j) ==
    LET at == {2 * k + c : k \in 0..(Len(tmp) - 1), c \in {0, 1}}
        hits == {n \in at : (IF n % 2 = 0 THEN tmp[(n \div 2) + 1].t0
                                          ELSE tmp[(n \div 2) + 1].t1) = j}
    IN  CHOOSE n \in hits : \A o \in hits : n <= o

\* C14: throughout convert(), every discovered subset is non-empty and has
\* one index (no subset is listed twice, the map gives each its place in
\* dfa_sets), is queued once and processed once in index order; the start
\* subset {start} has index 0 and the others are numbered in the order their
\* first incoming transition is processed, symbol 0 before symbol 1; the
\* state stored for a subset is accepting iff the subset holds an accepting
\* NFA state, and its successor on c is the index of the subset of its
\* members' c-successors (-1 for the empty one).
SubsetsIndexedOnce ==
    pc = "subset_loop" =>
        LET n == Len(dfa_sets)
            done == Len(tmp)
        IN  /\ dfa_sets[1] = {nfa.start}
            /\ \A i \in 1..n : \A j \in 1..n :
                   dfa_sets[i] = dfa_sets[j] => i = j
            /\ \A i \in 1..n : dfa_sets[i] # {}
            /\ DOMAIN state_map = {dfa_sets[i] : i \in 1..n}
            /\ \A i \in 1..n : state_map[dfa_sets[i]] = i - 1
            /\ q = SubSeq(dfa_sets, done + 1, n)
            /\ \A k \in 1..done :
                   /\ tmp[k].id = k - 1
                   /\ tmp[k].accept <=>
                          \E s \in dfa_sets[k] : nfa.states[s + 1].accept
                   /\ IF Successors(dfa_sets[k], "0") = {} THEN tmp[k].t0 = -1
                      ELSE /\ tmp[k].t0 \in 0..(n - 1)
                           /\ dfa_sets[tmp[k].t0 + 1]
                                  = Successors(dfa_sets[k], "0")
                   /\ IF Successors(dfa_sets[k], "1") = {} THEN tmp[k].t1 = -1
                      ELSE /\ tmp[k].t1 \in 0..(n - 1)
                           /\ dfa_sets[tmp[k].t1 + 1]
                                  = Successors(dfa_sets[k], "1")
            /\ \A i \in 1..(n - 1) : \A j \in 1..(n - 1) :
                   i < j => Discovery(i) < Discovery(j)

\* The worklist has run empty with at least four subsets indexed, one of
\* several NFA states, and one subset reached again from a second state.
SubsetsWitness ==
    /\ pc = "subset_loop"
    /\ q = <<>>
    /\ Len(dfa_sets) >= 4
    /\ \E i \in 1..Len(dfa_sets) : Cardinality(dfa_sets[i]) >= 3
    /\ \E k \in 1..Len(tmp) : \E l \in 1..Len(tmp) :
           k < l /\ tmp[k].t0 >= 0 /\ tmp[k].t0 = tmp[l].t0

\* ---------------------------------------------------------------- C15
\* C15: the DFA convert() returns has one state more than the subsets found,
\* the trap, whether or not a subset had an empty successor; the trap is the
\* only non-accepting state with both transitions to itself; every empty
\* successor became the trap, every other successor is kept, and every
\* transition is the index of a state.
TrapCreatedEagerly ==
    pc = "min" =>
        LET n == Len(dfa.states)
            Fixed(t) == IF t = -1 THEN dfa.trap ELSE t
        IN  /\ n = Len(dfa_sets) + 1
            /\ Len(tmp) = Len(dfa_sets)
            /\ dfa.trap = n - 1
            /\ dfa.start = 0
            /\ {k \in 0..(n - 1) : /\ ~dfa.states[k + 1].accept
                                   /\ dfa.states[k + 1].t0 = k
                                   /\ dfa.states[k + 1].t1 = k} = {dfa.trap}
            /\ \A k \in 1..n : /\ dfa.states[k].id = k - 1
                               /\ dfa.states[k].t0 \in 0..(n - 1)
                               /\ dfa.states[k].t1 \in 0..(n - 1)
            /\ \A k \in 1..Len(tmp) :
                   /\ dfa.states[k].accept = tmp[k].accept
                   /\ dfa.states[k].t0 = Fixed(tmp[k].t0)
                   /\ dfa.states[k].t1 = Fixed(tmp[k].t1)

\* convert() returned a DFA of at least four states in which no state had an
\* empty successor: the trap was made all the same and nothing leads to it.
TrapEagerWitness ==
    /\ pc = "min"
    /\ round = 1
    /\ Len(dfa.states) >= 4
    /\ \A k \in 1..Len(tmp) : tmp[k].t0 # -1 /\ tmp[k].t1 # -1
    /\ \A k \in 1..Len(dfa_sets) :
           dfa.states[k].t0 # dfa.trap /\ dfa.states[k].t1 # dfa.trap

\* ---------------------------------------------------------------- C16
\* The states of a that one silent transition leads to from a state of S.
SilentStep(a, S) ==
    {x \in 0..(Len(a.states) - 1) :
        \E s \in S : EPS \in DOMAIN a.states[s + 1].trans
                     /\ \E k \in 1..Len(a.states[s + 1].trans[EPS]) :
                            a.states[s + 1].trans[EPS][k] = x}

\* Reflexive-transitive silent closure of the set S, as a least fixpoint.
RECURSIVE SilentClosure(_, _)
SilentClosure(a, S) ==
    IF SilentStep(a, S) \subseteq S THEN S
    ELSE SilentClosure(a, S \cup SilentStep(a, S))

\* The states of a that a direct transition on c leads to from state m.
Direct(a, m, c) ==
    IF c \in DOMAIN a.states[m + 1].trans
    THEN {a.states[m + 1].trans[c][k] : k \in 1..Len(a.states[m + 1].trans[c])}
    ELSE {}

\* C16: the automaton remove() returns has the states and the start of its
\* input and no silent transition; state i is accepting iff a state of the
\* silent closure of i is accepting in the input, and its successors on c
\* are the union, over the members m of the closure of i, of the closures of
\* the direct c-successors of m.
SilentTransitionsRemoved ==
    pc = "subset" =>
        /\ Len(nfa.states) = Len(enfa.states)
        /\ nfa.start = enfa.start
        /\ \A i \in 0..(Len(enfa.states) - 1) :
               LET clo == SilentClosure(enfa, {i})
               IN  /\ eps_closures[i + 1] = clo
                   /\ nfa.states[i + 1].id = i
                   /\ EPS \notin DOMAIN nfa.states[i + 1].trans
                   /\ nfa.states[i + 1].accept <=>
                          \E m \in clo : enfa.states[m + 1].accept
                   /\ \A c \in {"0", "1"} :
                          Direct(nfa, i, c) =
                              UNION {SilentClosure(enfa, {x}) :
                                        x \in UNION {Direct(enfa, m, c) : m \in clo}}

\* remove() returned for an automaton in which some closure has at least
\* four states, a state became accepting through its closure, and a state got
\* at least three successors on one symbol.
SilentWitness ==
    /\ pc = "subset"
    /\ \E i \in 1..Len(enfa.states) :
           /\ Cardinality(eps_closures[i]) >= 4
           /\ nfa.states[i].accept
           /\ ~enfa.states[i].accept
    /\ \E i \in 1..Len(nfa.states) : \E c \in {"0", "1"} :
           Cardinality(Direct(nfa, i - 1, c)) >= 3

\* ---------------------------------------------------------------- C17
\* Number of nodes of the tree t that create a pair of states: every node
\* but the concatenations.
RECURSIVE StatePairs(_)
StatePairs(t) ==
    CASE t.type = "CHAR" -> 1
      [] t.type = "STAR" -> 1 + StatePairs(t.left)
      [] t.type = "UNION" -> 1 + StatePairs(t.left) + StatePairs(t.right)
      [] t.type = "CONCAT" -> StatePairs(t.left) + StatePairs(t.right)

\* Entry and exit of the fragment of t when its first state is number base.
RECURSIVE Entry(_, _), Exit(_, _)
Entry(t, base) ==
    IF t.type = "CONCAT" THEN Entry(t.left, base) ELSE base

Exit(t, base) ==
    IF t.type = "CONCAT" THEN Exit(t.right, base + 2 * StatePairs(t.left))
    ELSE base + 1

\* C17: the automaton build() returns has exactly one accepting state, the
\* exit of the root fragment, which no transition leaves; its start is the
\* entry of the root fragment, which no transition enters; it has two states
\* for every node of the tree other than a concatenation.
OneAcceptingState ==
    pc = "eps" =>
        LET n == Len(enfa.states)
            Targets(i) == UNION {Direct(enfa, i, c) : c \in {"0", "1", EPS}}
        IN  /\ n = 2 * StatePairs(root)
            /\ {i \in 0..(n - 1) : enfa.states[i + 1].accept} = {Exit(root, 0)}
            /\ enfa.start = Entry(root, 0)
            /\ Targets(Exit(root, 0)) = {}
            /\ \A i \in 0..(n - 1) : enfa.start \notin Targets(i)

\* build() returned for a concatenation of two operands that are stars or
\* unions: entry and exit belong to different inner fragments.
OneAcceptingWitness ==
    /\ pc = "eps"
    /\ root.type = "CONCAT"
    /\ root.left.type \in {"UNION", "STAR"}
    /\ root.right.type \in {"UNION", "STAR"}
    /\ Len(enfa.states) >= 8

\* ---------------------------------------------------------------- C18
\* C18: the call of remove_trap() on a DFA with trap index t turns every
\* transition to t into -1, makes state t non-accepting without transitions
\* and sets the trap index to -1; the number of states, the start, the ids,
\* the accept flags of the other states and the transitions to other states
\* stay as they were; on the result, where no trap is recorded, a further
\* call changes nothing.
TrapRemovalFrame ==
    [][(pc = "trap" /\ pc' = "print") =>
           LET t == mdfa.trap
               Cut(x) == IF x = t THEN -1 ELSE x
           IN  /\ t >= 0
               /\ Len(mdfa'.states) = Len(mdfa.states)
               /\ mdfa'.start = mdfa.start
               /\ mdfa'.trap = -1
               /\ \A k \in 1..Len(mdfa.states) :
                      /\ mdfa'.states[k].id = mdfa.states[k].id
                      /\ IF k = t + 1
                         THEN /\ ~mdfa'.states[k].accept
                              /\ mdfa'.states[k].t0 = -1
                              /\ mdfa'.states[k].t1 = -1
                         ELSE /\ mdfa'.states[k].accept = mdfa.states[k].accept
                              /\ mdfa'.states[k].t0 = Cut(mdfa.states[k].t0)
                              /\ mdfa'.states[k].t1 = Cut(mdfa.states[k].t1)
               /\ remove_trap(mdfa') = mdfa']_vars

\* remove_trap() has run on a DFA of at least four states in which a state
\* other than the trap kept one transition and lost the other.
TrapRemovalWitness ==
    /\ pc = "print"
    /\ Len(mdfa.states) >= 4
    /\ \E k \in 1..Len(mdfa.states) :
           /\ mdfa.states[k].accept
           /\ mdfa.states[k].t0 = -1
           /\ mdfa.states[k].t1 >= 0
    /\ \E k \in 1..Len(mdfa.states) :
           ~mdfa.states[k].accept /\ mdfa.states[k].t0 >= 0

\* ---------------------------------------------------------------- C19
\* C19: in the result of minimize() the trap class is not the start class
\* and holds no accepting state of the input and no state of the input from
\* which an accepting state can be reached; so remove_trap() leaves the start
\* state's accept flag and every other accept flag as they are, and from the
\* state it cuts off no accepting state can be reached.
TrapClassIsDead ==
    (pc = "trap" /\ round = 1) =>
        LET t == mdfa.trap
            Accepting(d, S) == \E s \in S : s >= 0 /\ d.states[s + 1].accept
        IN  /\ t \in 0..(Len(mdfa.states) - 1)
            /\ t # mdfa.start
            /\ \A i \in 0..(Len(dfa.states) - 1) :
                   partition[i + 1] = t => ~Accepting(dfa, ReachFrom(dfa, {i}))
            /\ ~Accepting(mdfa, ReachFrom(mdfa, {t}))
            /\ \A k \in 1..Len(mdfa.states) :
                   remove_trap(mdfa).states[k].accept = mdfa.states[k].accept
            /\ remove_trap(mdfa).start = mdfa.start

\* minimize() returned at least four classes and the start state leads
\* straight to the trap.
TrapClassWitness ==
    /\ pc = "trap"
    /\ round = 1
    /\ Len(mdfa.states) >= 4
    /\ mdfa.trap \in {mdfa.states[mdfa.start + 1].t0,
                      mdfa.states[mdfa.start + 1].t1}

\* ---------------------------------------------------------------- C20
\* C20: when the refinement loop of minimize() exits, the class ids of
\* partition are exactly 0..count_classes-1, so every class has a
\* representative and the states built do not depend on uninitialized
\* memory; the result has one state per class, and its start, its trap and
\* both transitions of each of its states are indices of its state array.
ClassIdsDense ==
    /\ (pc = "min_loop" /\ ~changed) =>
           LET count_classes == Max(Range(partition)) + 1
           IN  /\ Range(partition) = 0..(count_classes - 1)
               /\ \A c \in 0..(count_classes - 1) :
                      \E i \in 1..Len(partition) : partition[i] = c
               /\ \A u1 \in UninitDFAStates : \A u2 \in UninitDFAStates :
                      minimize_build(dfa, partition, u1) =
                          minimize_build(dfa, partition, u2)
    /\ pc = "trap" =>
           LET n == Len(mdfa.states)
           IN  /\ n = Cardinality(Range(partition))
               /\ mdfa.start \in 0..(n - 1)
               /\ mdfa.trap \in 0..(n - 1)
               /\ \A k \in 1..n :
                      /\ mdfa.states[k].id = k - 1
                      /\ mdfa.states[k].t0 \in 0..(n - 1)
                      /\ mdfa.states[k].t1 \in 0..(n - 1)

\* minimize() returned at least four states, fewer than it was given, after
\* at least three passes of the loop.
ClassIdsWitness ==
    /\ pc = "trap"
    /\ passes >= 3
    /\ Len(mdfa.states) >= 4
    /\ Len(mdfa.states) < Len(dfa.states)
====
